---------------------------- MODULE Spec2Model ----------------------------
(***************************************************************************)
(* FireGPT (src/FireGPT/app.py): the model registry (llm, current_model,   *)
(* llm_lock) under concurrent /set_model calls, the /ask and /plan_action  *)
(* handlers with their external lookups, the output normaliser            *)
(* to_markdown, and the /upload_doc ingestion path.                        *)
(*                                                                         *)
(* Four groups of state, each with its own specification:                  *)
(*   Spec             set_model callers interleaved with one request       *)
(*                    worker serving ask and plan_action                   *)
(*   FairSpec         the request worker alone, under weak fairness        *)
(*   SpecPlan         plan_action over every Overpass response in bounds   *)
(*   SpecMarkdown     to_markdown applied to every text in bounds          *)
(*   SpecUpload       concurrent upload_doc calls                          *)
(***************************************************************************)
EXTENDS Integers, Sequences, FiniteSets, TLC

VARIABLES
    llm,            \* global llm: the active backend reference (app.py:39)
    current_model,  \* global current_model (app.py:40)
    llm_lock,       \* llm_lock: 0 when free, else the caller holding it
    ld,             \* per set_model caller: its position and locals
    rq,             \* the request worker serving /ask and /plan_action
    osm,            \* the elements the Overpass service knows near the fire
    md,             \* to_markdown under test: input, state, output
    folder,         \* UPLOAD_FOLDER: file name -> content
    vectorstore,    \* texts added to the in-memory FAISS store by uploads
    faiss_index,    \* texts in the persisted index (save_local)
    up              \* per upload_doc caller: its position and locals

vars == <<llm, current_model, llm_lock, ld, rq, osm, md, folder,
          vectorstore, faiss_index, up>>
regVars == <<llm, current_model, llm_lock, ld>>
upVars == <<folder, vectorstore, faiss_index, up>>

(***************************************************************************)
(* Bounds.                                                                 *)
(***************************************************************************)
NLoaders == 2      \* concurrent set_model callers
MaxElems == 2      \* elements in one Overpass response
MaxLen == 4        \* length of a text handed to to_markdown
NUploaders == 2    \* concurrent upload_doc callers

(***************************************************************************)
(* Python values.  None, floats and strings are records of different       *)
(* shapes, so that a test such as "lat is None" is a comparison of values. *)
(***************************************************************************)
PyNone == [t |-> "None"]
Num(n) == [t |-> "float", n |-> n]
Str(s) == [t |-> "str", s |-> s]

IsNone(v) == v = PyNone
IsNum(v) == v.t = "float"

\* Python truthiness of None, a float or a string: bool(v).
Truthy(v) ==
    CASE v.t = "None" -> FALSE
      [] v.t = "float" -> v.n # 0
      [] v.t = "str" -> v.s # ""
      [] OTHER -> TRUE

(***************************************************************************)
(* to_markdown.  A text is a sequence of characters over a small alphabet: *)
(* "S" and "P" stand for two section-header phrases ('Summary' and 'Plan', *)
(* in the order of the section_headers list), "1" for a digit, "x" for any *)
(* other character.  re.sub is modelled as Python runs it: a left-to-right *)
(* scan, the leftmost match replaced, the scan resumed at the match's end; *)
(* no re.MULTILINE, so "^" matches at the start of the text only.          *)
(***************************************************************************)
NL == "\n"
section_headers == << <<"S">>, <<"P">> >>

IsSpace(c) == c \in {" ", NL}
IsDigit(c) == c = "1"

RECURSIVE SkipSpace(_, _)
\* \s* (greedy) from position k: the first position that is not whitespace.
SkipSpace(t, k) ==
    IF k <= Len(t) /\ IsSpace(t[k]) THEN SkipSpace(t, k + 1) ELSE k

RECURSIVE SkipDigits(_, _)
\* \d* (greedy) from position k.
SkipDigits(t, k) ==
    IF k <= Len(t) /\ IsDigit(t[k]) THEN SkipDigits(t, k + 1) ELSE k

\* The last newline among positions lo..hi-1, or 0.
LastNL(t, lo, hi) ==
    LET s == {i \in lo..(hi - 1) : t[i] = NL}
    IN IF s = {} THEN 0 ELSE CHOOSE i \in s : \A j \in s : j <= i

LiteralAt(t, k, w) ==
    /\ k + Len(w) - 1 <= Len(t)
    /\ SubSeq(t, k, k + Len(w) - 1) = w

\* \s*header\s*:?\s*\n from position j (just after group 1): the position
\* after the match, or 0.  With backtracking the match ends after the last
\* newline of the whitespace run that follows the colon when there is a
\* colon and such a newline, else after the last newline of the whitespace
\* run that follows the header.
HeaderTail(t, j, header) ==
    LET k == SkipSpace(t, j)
        m == k + Len(header)
        a == SkipSpace(t, m)
        colon == a <= Len(t) /\ t[a] = ":"
        b == SkipSpace(t, a + 1)
        n2 == IF colon THEN LastNL(t, a + 1, b) ELSE 0
        n1 == LastNL(t, m, a)
    IN IF ~LiteralAt(t, k, header) THEN 0
       ELSE IF n2 > 0 THEN n2 + 1
       ELSE IF n1 > 0 THEN n1 + 1
       ELSE 0

\* \s*(\d+)\.\s+ from position j: <<end, digits>>, end 0 when no match.
NumberTail(t, j) ==
    LET k == SkipSpace(t, j)
        d == SkipDigits(t, k)
        e == SkipSpace(t, d + 1)
    IN IF d > k /\ d <= Len(t) /\ t[d] = "." /\ e > d + 1
       THEN <<e, SubSeq(t, k, d - 1)>>
       ELSE <<0, <<>>>>

\* \s*-\s+ from position j.
BulletTail(t, j) ==
    LET k == SkipSpace(t, j)
        e == SkipSpace(t, k + 1)
    IN IF k <= Len(t) /\ t[k] = "-" /\ e > k + 1 THEN e ELSE 0

\* (^|\n) at position i, then tail: <<end, group 1>>.  The alternatives are
\* tried in order: "^" (at position 1 only), then a newline at i.
RECURSIVE SubHeader(_, _, _)
SubHeader(t, i, header) ==
    IF i > Len(t) THEN <<>>
    ELSE LET e1 == IF i = 1 THEN HeaderTail(t, 1, header) ELSE 0
             e2 == IF t[i] = NL THEN HeaderTail(t, i + 1, header) ELSE 0
             repl == <<"#", "#", " ">> \o header \o <<NL>>
         IN IF e1 > 0 THEN repl \o SubHeader(t, e1, header)
            ELSE IF e2 > 0 THEN <<NL>> \o repl \o SubHeader(t, e2, header)
            ELSE <<t[i]>> \o SubHeader(t, i + 1, header)

RECURSIVE SubNumber(_, _)
SubNumber(t, i) ==
    IF i > Len(t) THEN <<>>
    ELSE LET m1 == IF i = 1 THEN NumberTail(t, 1) ELSE <<0, <<>>>>
             m2 == IF t[i] = NL THEN NumberTail(t, i + 1) ELSE <<0, <<>>>>
         IN IF m1[1] > 0 THEN m1[2] \o <<".", " ">> \o SubNumber(t, m1[1])
            ELSE IF m2[1] > 0
                 THEN <<NL>> \o m2[2] \o <<".", " ">> \o SubNumber(t, m2[1])
            ELSE <<t[i]>> \o SubNumber(t, i + 1)

RECURSIVE SubBullet(_, _)
SubBullet(t, i) ==
    IF i > Len(t) THEN <<>>
    ELSE LET e1 == IF i = 1 THEN BulletTail(t, 1) ELSE 0
             e2 == IF t[i] = NL THEN BulletTail(t, i + 1) ELSE 0
         IN IF e1 > 0 THEN <<"-", " ">> \o SubBullet(t, e1)
            ELSE IF e2 > 0 THEN <<NL, "-", " ">> \o SubBullet(t, e2)
            ELSE <<t[i]>> \o SubBullet(t, i + 1)

RECURSIVE SubHeaders(_, _)
\* for header in section_headers: text = re.sub(..., text)
SubHeaders(t, h) ==
    IF h > Len(section_headers) THEN t
    ELSE SubHeaders(SubHeader(t, 1, section_headers[h]), h + 1)

to_markdown(text) == SubBullet(SubNumber(SubHeaders(text, 1), 1), 1)


(***************************************************************************)
(* The model registry: llm, current_model, llm_lock; load_llm, set_model.  *)
(***************************************************************************)
Loaders == 1..NLoaders

\* The *.gguf files on disk, and the files LlamaCpp cannot load.
ModelFiles == {"good.gguf", "corrupt.gguf"}
CorruptFiles == {"corrupt.gguf"}
\* The "model" field of a /set_model body: absent, or a path.
ModelArgs == {PyNone, Str("good.gguf"), Str("corrupt.gguf"), Str("missing.gguf")}

os_path_exists(p) == p \in ModelFiles

\* A backend object.  "constructed" is FALSE while LlamaCpp.__init__ runs.
RealModel(p) == [t |-> "LlamaCpp", model_path |-> p, constructed |-> TRUE]
HalfBuilt(p) == [t |-> "LlamaCpp", model_path |-> p, constructed |-> FALSE]
StubModel == [t |-> "dummy_llm", constructed |-> TRUE]
PyException == [t |-> "Exception"]

IsBackend(v) == v.t \in {"LlamaCpp", "dummy_llm"} /\ v.constructed

\* LlamaCpp(model_path=...): the object, or the exception it raises.  A
\* loadable file may still fail (out of memory).
LlamaCpp(p) ==
    IF os_path_exists(p) /\ p \notin CorruptFiles
    THEN {RealModel(p), PyException}
    ELSE {PyException}

\* The registry after the initial load: --dummy or no *.gguf file gives the
\* stub; else load_llm(default_model) gives the model or, on failure, the stub.
InitialLoad ==
    {<<StubModel, PyNone>>} \cup
    {<<RealModel(p), Str(p)>> : p \in ModelFiles \ CorruptFiles}

LdIdle == [pc |-> "idle", model |-> PyNone, built |-> PyNone, resp |-> PyNone]

\* set_model's guard: "not model or not os.path.exists(model)" negated.
ModelFoundNoExistsCheck(model) == Truthy(model)
ModelFound(model) == Truthy(model) /\ os_path_exists(model.s)

\* set_model up to the call of load_llm.
set_model_begin(l, model) ==
    /\ ld[l].pc = "idle"
    /\ ld' = [ld EXCEPT ![l] =
                IF ~ModelFound(model)
                THEN [pc |-> "done", model |-> model, built |-> PyNone,
                      resp |-> [status |-> 400, error |-> "Model not found"]]
                ELSE [pc |-> "acquire", model |-> model, built |-> PyNone,
                      resp |-> PyNone]]
    /\ UNCHANGED <<llm, current_model, llm_lock>>
    /\ UNCHANGED <<rq, osm, md, upVars>>

\* A load_llm that drops the old backend before it loads the new one.
load_llm_acquire_unsets(l) ==
    /\ ld[l].pc = "acquire"
    /\ llm_lock = 0
    /\ llm_lock' = l
    /\ llm' = PyNone
    /\ ld' = [ld EXCEPT ![l].pc = "construct"]
    /\ UNCHANGED current_model
    /\ UNCHANGED <<rq, osm, md, upVars>>

\* load_llm: "with llm_lock:".
load_llm_acquire(l) ==
    /\ ld[l].pc = "acquire"
    /\ llm_lock = 0
    /\ llm_lock' = l
    /\ ld' = [ld EXCEPT ![l].pc = "construct"]
    /\ UNCHANGED <<llm, current_model>>
    /\ UNCHANGED <<rq, osm, md, upVars>>

\* load_llm: LlamaCpp(...) is called.  The object under construction is
\* known to the constructor alone.
load_llm_construct_begin(l) ==
    /\ ld[l].pc = "construct"
    /\ ld' = [ld EXCEPT ![l].built = HalfBuilt(ld[l].model.s),
                        ![l].pc = "constructing"]
    /\ UNCHANGED <<llm, current_model, llm_lock>>
    /\ UNCHANGED <<rq, osm, md, upVars>>

\* load_llm: the call LlamaCpp(...) returns or raises; llm is not yet assigned.
load_llm_construct(l) ==
    /\ ld[l].pc = "constructing"
    /\ \E b \in LlamaCpp(ld[l].model.s) :
          ld' = [ld EXCEPT ![l].built = b,
                           ![l].pc = IF b = PyException THEN "fallback"
                                     ELSE "publish"]
    /\ UNCHANGED <<llm, current_model, llm_lock>>
    /\ UNCHANGED <<rq, osm, md, upVars>>

\* load_llm: "llm = LlamaCpp(...)", the assignment.
load_llm_publish(l) ==
    /\ ld[l].pc = "publish"
    /\ llm' = ld[l].built
    /\ ld' = [ld EXCEPT ![l].pc = "publish_current"]
    /\ UNCHANGED <<current_model, llm_lock>>
    /\ UNCHANGED <<rq, osm, md, upVars>>

\* load_llm: "current_model = model_path".
load_llm_publish_current(l) ==
    /\ ld[l].pc = "publish_current"
    /\ current_model' = ld[l].model
    /\ ld' = [ld EXCEPT ![l].pc = "release"]
    /\ UNCHANGED <<llm, llm_lock>>
    /\ UNCHANGED <<rq, osm, md, upVars>>

\* load_llm, except branch: "llm = dummy_llm".
load_llm_fallback(l) ==
    /\ ld[l].pc = "fallback"
    /\ llm' = StubModel
    /\ ld' = [ld EXCEPT ![l].pc = "fallback_current"]
    /\ UNCHANGED <<current_model, llm_lock>>
    /\ UNCHANGED <<rq, osm, md, upVars>>

\* load_llm, except branch: "current_model = None".
load_llm_fallback_current(l) ==
    /\ ld[l].pc = "fallback_current"
    /\ current_model' = PyNone
    /\ ld' = [ld EXCEPT ![l].pc = "release"]
    /\ UNCHANGED <<llm, llm_lock>>
    /\ UNCHANGED <<rq, osm, md, upVars>>

\* os.path.basename of a model path (the paths here have no directory part).
basename(p) == p

\* GET /models: the body of the response, computed from the globals as they
\* are when the handler runs; it takes no lock.
list_models ==
    [models |-> ModelFiles,
     current |-> IF Truthy(current_model) THEN Str(basename(current_model.s))
                 ELSE PyNone]

\* What set_model answers once load_llm is back.  load_llm catches every
\* exception of the constructor itself, so it never raises into set_model.
set_model_response(raised, model) ==
    IF raised THEN [status |-> 500, error |-> "load failed"]
    ELSE [status |-> 200, success |-> TRUE, current |-> basename(model.s)]

\* load_llm leaves the "with" block and set_model returns its response.
set_model_return(l) ==
    /\ ld[l].pc = "release"
    /\ llm_lock = l
    /\ llm_lock' = 0
    /\ ld' = [ld EXCEPT ![l].pc = "done",
                        ![l].resp = set_model_response(FALSE, ld[l].model)]
    /\ UNCHANGED <<llm, current_model>>
    /\ UNCHANGED <<rq, osm, md, upVars>>

\* The response is sent; the caller may call again.
set_model_finish(l) ==
    /\ ld[l].pc = "done"
    /\ ld' = [ld EXCEPT ![l] = LdIdle]
    /\ UNCHANGED <<llm, current_model, llm_lock>>
    /\ UNCHANGED <<rq, osm, md, upVars>>

LoaderNext(l) ==
    \/ \E model \in ModelArgs : set_model_begin(l, model)
    \/ load_llm_acquire(l)
    \/ load_llm_construct_begin(l)
    \/ load_llm_construct(l)
    \/ load_llm_publish(l)
    \/ load_llm_publish_current(l)
    \/ load_llm_fallback(l)
    \/ load_llm_fallback_current(l)
    \/ set_model_return(l)
    \/ set_model_finish(l)

(***************************************************************************)
(* The RAG chain: get_rag_chain reads the global llm when the chain is     *)
(* built; chain.invoke(input) queries the retriever with the input, puts   *)
(* the retrieved chunks in the prompt's context and the input in its       *)
(* question, and calls the backend.                                        *)
(***************************************************************************)
\* What a backend writes.  The stub's placeholder has no header or list
\* marker; a real model's text may.
StubText == <<"x">>
ModelOutputs == {<<"x">>, <<"P", NL, "1", ".", " ", " ", "x">>}
\* to_markdown on the texts a backend writes, evaluated once.
markdown_of == [x \in ModelOutputs \cup {StubText} |-> to_markdown(x)]

Raised == [ok |-> FALSE]
Returned(text) == [ok |-> TRUE, text |-> text]

\* The pipe "prompt | llm": a call-through to the backend the chain holds.
InvokeBackend(b) ==
    IF b = StubModel THEN {Returned(StubText)}
    ELSE IF IsBackend(b) THEN {Returned(x) : x \in ModelOutputs} \cup {Raised}
    ELSE {Raised}

\* A chain whose context is the input itself, with no retriever in it.
chain_prompt_passthrough(input) ==
    [context |-> input, question |-> input]

\* RunnableMap: "context" is the retriever's answer to the input (truncated
\* by truncate_docs), "question" is the input passed through.
chain_prompt(input) ==
    [context |-> [t |-> "chunks", retrieved_for |-> input], question |-> input]

(***************************************************************************)
(* Place extraction and geocoding.                                         *)
(***************************************************************************)
\* The "query" field of an /ask body.
Queries == {PyNone, Str(""), Str("Wildfire near Los Angeles"),
            Str("It's windy today")}

\* extract_place_name on the sample questions: the first pattern finds
\* "near Los Angeles"; no pattern matches "It's windy today".
extract_place_name(question) ==
    IF question = Str("Wildfire near Los Angeles") THEN Str("Los Angeles")
    ELSE PyNone

\* float(s) for the strings Nominatim sends here; "n/a" raises ValueError.
FloatStrings == {"0.0", "34.0", "-118.0"}
float(s) ==
    CASE s = "0.0" -> 0
      [] s = "34.0" -> 34
      [] s = "-118.0" -> 0 - 118

\* What requests.get hands back: an exception, or a response whose JSON is
\* a list of results.
GeocodeReplies ==
    {[kind |-> "exception"],
     [kind |-> "http", status_code |-> 500, json |-> <<>>],
     [kind |-> "http", status_code |-> 200, json |-> <<>>],
     [kind |-> "http", status_code |-> 200, json |-> <<[lon |-> "0.0"]>>]}
    \cup {[kind |-> "http", status_code |-> 200,
           json |-> <<[lat |-> a, lon |-> b]>>] :
            a \in {"0.0", "34.0", "n/a"}, b \in {"0.0", "-118.0"}}

\* geocode_place once requests.get is back: (lat, lon) or (None, None).
geocode_place(reply) ==
    IF reply.kind = "exception" THEN <<PyNone, PyNone>>
    ELSE IF reply.status_code = 200 /\ reply.json # <<>>
    THEN LET data == reply.json[1]
         IN IF /\ "lat" \in DOMAIN data
               /\ "lon" \in DOMAIN data
               /\ data.lat \in FloatStrings
               /\ data.lon \in FloatStrings
            THEN <<Num(float(data.lat)), Num(float(data.lon))>>
            ELSE <<PyNone, PyNone>>
    ELSE <<PyNone, PyNone>>

(***************************************************************************)
(* The nearby-resource lookup.                                             *)
(***************************************************************************)
E_fire == [type |-> "node", lat |-> 1, lon |-> 0,
           tags |-> [amenity |-> "fire_station", name |-> "Station 1"]]
E_police == [type |-> "node", lat |-> 2, lon |-> 2,
             tags |-> [amenity |-> "police"]]
E_hospital == [type |-> "node", lat |-> 0, lon |-> 2,
               tags |-> [amenity |-> "hospital", name |-> "General"]]
E_water == [type |-> "node", lat |-> 0, lon |-> 1,
            tags |-> [natural |-> "water"]]
E_road == [type |-> "node", lat |-> 1, lon |-> 1,
           tags |-> [highway |-> "residential", name |-> "Elm Street"]]
E_estate == [type |-> "node", lat |-> 0, lon |-> 3,
             tags |-> [highway |-> "residential", landuse |-> "residential"]]
E_forest == [type |-> "way", center |-> [lat |-> 3, lon |-> 0],
             tags |-> [landuse |-> "forest"]]
E_lake == [type |-> "way", tags |-> [natural |-> "water", name |-> "Lake"]]

OsmSamples == {E_fire, E_police, E_hospital, E_water, E_road, E_estate,
               E_forest, E_lake}
\* The elements of the specification that interleaves set_model callers.
OsmSmall == {E_fire}

\* Sequences of distinct elements of s, of length at most n.
RECURSIVE SeqsUpTo(_, _)
SeqsUpTo(s, n) ==
    IF n = 0 THEN {<<>>}
    ELSE LET shorter == SeqsUpTo(s, n - 1)
         IN shorter \cup
            {Append(q, e) : q \in {r \in shorter : Len(r) = n - 1},
                            e \in s}

Distinct(q) == \A i, j \in 1..Len(q) : i # j => q[i] # q[j]

\* What requests.post hands back: an exception, a body that is not JSON, or
\* JSON with a list of elements.
OverpassReplies(world) ==
    {[kind |-> "exception"], [kind |-> "malformed"]} \cup
    {[kind |-> "json", elements |-> q] :
        q \in {r \in SeqsUpTo(world, MaxElems) : Distinct(r)}}

\* str.replace('_', ' ').title() on the tag values that occur.
title(v) ==
    CASE v = "fire_station" -> "Fire Station"
      [] v = "police" -> "Police"
      [] v = "hospital" -> "Hospital"
      [] v = "water" -> "Water"
      [] v = "forest" -> "Forest"
      [] v = "residential" -> "Residential"

\* A type derivation that titles the highway tag as it does the others.
location_type_highway_titled(tags) ==
    IF "amenity" \in DOMAIN tags THEN title(tags.amenity)
    ELSE IF "natural" \in DOMAIN tags THEN title(tags.natural)
    ELSE IF "landuse" \in DOMAIN tags THEN title(tags.landuse)
    ELSE IF "highway" \in DOMAIN tags THEN title(tags.highway)
    ELSE "Unknown"

\* fetch_surroundings: the type derived from an element's tags.
location_type(tags) ==
    IF "amenity" \in DOMAIN tags THEN title(tags.amenity)
    ELSE IF "natural" \in DOMAIN tags THEN title(tags.natural)
    ELSE IF "landuse" \in DOMAIN tags THEN title(tags.landuse)
    ELSE IF "highway" \in DOMAIN tags THEN "Road"
    ELSE "Unknown"

location_name(tags) ==
    IF "name" \in DOMAIN tags THEN tags.name ELSE "Unnamed location"

el_lat(e) ==
    IF e.type = "node"
    THEN (IF "lat" \in DOMAIN e THEN Num(e.lat) ELSE PyNone)
    ELSE (IF "center" \in DOMAIN e /\ "lat" \in DOMAIN e.center
          THEN Num(e.center.lat) ELSE PyNone)

el_lon(e) ==
    IF e.type = "node"
    THEN (IF "lon" \in DOMAIN e THEN Num(e.lon) ELSE PyNone)
    ELSE (IF "center" \in DOMAIN e /\ "lon" \in DOMAIN e.center
          THEN Num(e.center.lon) ELSE PyNone)

HasCoords(e) == el_lat(e) # PyNone /\ el_lon(e) # PyNone

\* The appended dict.  "distance" is kept as the squared distance in
\* degrees: the code's sqrt(...) * 111.32 orders the points the same way.
surrounding(e, lat, lon) ==
    [name |-> location_name(e.tags),
     type |-> location_type(e.tags),
     lat |-> el_lat(e).n,
     lon |-> el_lon(e).n,
     distance |-> (el_lat(e).n - lat.n) * (el_lat(e).n - lat.n)
                  + (el_lon(e).n - lon.n) * (el_lon(e).n - lon.n)]

RECURSIVE InsertByDistance(_, _)
InsertByDistance(s, x) ==
    IF s = <<>> THEN <<x>>
    ELSE IF Head(s).distance <= x.distance
         THEN <<Head(s)>> \o InsertByDistance(Tail(s), x)
         ELSE <<x>> \o s

RECURSIVE SortByDistance(_)
\* list.sort(key=distance): stable.
SortByDistance(s) ==
    IF s = <<>> THEN <<>>
    ELSE InsertByDistance(SortByDistance(SubSeq(s, 1, Len(s) - 1)), s[Len(s)])

\* fetch_surroundings once requests.post is back.  Any exception (no reply
\* body, a body that is not JSON, a subtraction on a latitude that is not a
\* number) is caught by the bare "except" and gives [].
fetch_surroundings(lat, lon, reply) ==
    IF reply.kind # "json" THEN <<>>
    ELSE LET kept == SelectSeq(reply.elements, HasCoords)
         IN IF kept = <<>> THEN <<>>
            ELSE IF ~(IsNum(lat) /\ IsNum(lon)) THEN <<>>
            ELSE SortByDistance([i \in 1..Len(kept) |->
                                    surrounding(kept[i], lat, lon)])

(***************************************************************************)
(* plan_action: bucketing, the resource report, the markers.               *)
(***************************************************************************)
ClosestLimit == 30     \* surroundings[:30]
ShownPerCategory == 10 \* locations[:10]
SafeZoneLimit == 3     \* [...][:3]

Take(s, n) == SubSeq(s, 1, IF Len(s) < n THEN Len(s) ELSE n)

\* The words of the if/elif chain that occur in type.lower().
Needles(type) ==
    CASE type = "Fire Station" -> {"fire"}
      [] type = "Police" -> {"police"}
      [] type = "Hospital" -> {"hospital"}
      [] type = "Water" -> {"water"}
      [] type = "Residential" -> {"residential"}
      [] type = "Forest" -> {"forest"}
      [] OTHER -> {}

\* needle in type.lower()
contains(needle, type) == needle \in Needles(type)

\* The keys of resource_categories, in the dict's order.
CategoryOrder == <<"Fire Station", "Police", "Hospital", "Water Source",
                   "Residential Area", "Forest">>

\* The if/elif chain of plan_action: the first branch that matches.
category_of(type) ==
    IF contains("fire", type) THEN "Fire Station"
    ELSE IF contains("police", type) THEN "Police"
    ELSE IF contains("hospital", type) THEN "Hospital"
    ELSE IF contains("water", type) THEN "Water Source"
    ELSE IF contains("residential", type) THEN "Residential Area"
    ELSE IF contains("forest", type) THEN "Forest"
    ELSE "none"

InCategory(loc, c) == category_of(loc.type) = c

\* resource_categories after the loop over surroundings[:30].
resource_categories(surroundings) ==
    [c \in {CategoryOrder[i] : i \in 1..Len(CategoryOrder)} |->
        SelectSeq(Take(surroundings, ClosestLimit),
                  LAMBDA loc : InCategory(loc, c))]

RECURSIVE ReportFrom(_, _)
\* The lines appended to resources_report from category number i on.
ReportFrom(cats, i) ==
    IF i > Len(CategoryOrder) THEN <<>>
    ELSE LET c == CategoryOrder[i]
             locations == cats[c]
             shown == Take(locations, ShownPerCategory)
         IN (IF locations = <<>> THEN <<>>
             ELSE <<[category |-> c, closest |-> Len(locations)]>> \o
                  [k \in 1..Len(shown) |->
                      [name |-> shown[k].name, type |-> shown[k].type,
                       distance |-> shown[k].distance]])
            \o ReportFrom(cats, i + 1)

resources_report(cats) ==
    <<[title |-> "Nearby Emergency Resources:"]>> \o ReportFrom(cats, 1)

\* The prompt string plan_action hands to the chain.
plan_prompt(lat, lon, report) ==
    [t |-> "prompt", lat |-> lat, lon |-> lon, report |-> report]

LatLon(locs) == [k \in 1..Len(locs) |-> [lat |-> locs[k].lat, lon |-> locs[k].lon]]

plan_markers(lat, lon, cats) ==
    [fire |-> [lat |-> lat, lon |-> lon],
     safe_zones |-> Take(LatLon(cats["Residential Area"]), SafeZoneLimit),
     crews |-> LatLon(cats["Fire Station"]),
     aerial |-> <<>>,
     hospitals |-> LatLon(cats["Hospital"]),
     water_sources |-> LatLon(cats["Water Source"])]

(***************************************************************************)
(* The request worker.  One /ask or /plan_action request is in flight at a *)
(* time: two such requests share nothing but the read of llm.              *)
(***************************************************************************)
RqIdle ==
    [pc |-> "idle", kind |-> "none", query |-> PyNone, lat |-> PyNone,
     lon |-> PyNone, chain |-> PyNone, lookups |-> 0, geocodes |-> 0,
     retrieved |-> <<>>, model_in |-> PyNone, place_name |-> PyNone,
     glat |-> PyNone, glon |-> PyNone, out |-> PyNone,
     lookup |-> "none", elements |-> <<>>, surroundings |-> <<>>,
     resp |-> PyNone]

\* The "latitude" and "longitude" fields of a /plan_action body.
LatArgs == {PyNone, Num(0), Num(1), Str("abc")}
LonArgs == {PyNone, Num(0), Str("abc")}

\* ask's "location" value.
ask_location(place_name, lat, lon) ==
    IF Truthy(lat) /\ Truthy(lon)
    THEN [name |-> place_name, lat |-> lat, lon |-> lon]
    ELSE PyNone

\* ask from to_markdown to the jsonify.
ask_return(r) ==
    [r EXCEPT !.pc = "done",
              !.resp = [status |-> 200,
                        response |-> markdown_of[r.out.text],
                        location |-> ask_location(r.place_name, r.glat, r.glon)]]

\* ask: the query check, then get_rag_chain() reads llm.
ask_begin(query) ==
    /\ rq.pc = "idle"
    /\ rq' = IF ~Truthy(query)
             THEN [RqIdle EXCEPT !.pc = "done", !.kind = "ask",
                                 !.query = query,
                                 !.resp = [status |-> 400,
                                           error |-> "No query provided."]]
             ELSE [RqIdle EXCEPT !.pc = "ask_invoke", !.kind = "ask",
                                 !.query = query, !.chain = llm]
    /\ UNCHANGED <<regVars, osm, md, upVars>>

\* ask: rag_chain.invoke(query), then extract_place_name(query).  An
\* exception of the backend leaves the handler (Flask answers 500).
ask_invoke ==
    /\ rq.pc = "ask_invoke"
    /\ \E out \in InvokeBackend(rq.chain) :
          LET r == [rq EXCEPT !.retrieved = Append(@, rq.query),
                              !.model_in = chain_prompt(rq.query),
                              !.out = out]
          IN rq' = IF ~out.ok
                   THEN [r EXCEPT !.pc = "done",
                                  !.resp = [status |-> 500,
                                            error |-> "Internal Server Error"]]
                   ELSE LET place == extract_place_name(rq.query)
                            r2 == [r EXCEPT !.place_name = place]
                        IN IF Truthy(place)
                           THEN [r2 EXCEPT !.pc = "ask_geocode",
                                           !.geocodes = @ + 1]
                           ELSE ask_return(r2)
    /\ UNCHANGED <<regVars, osm, md, upVars>>

\* ask: requests.get of geocode_place is back; the response is built.
ask_geocode_reply ==
    /\ rq.pc = "ask_geocode"
    /\ \E reply \in GeocodeReplies :
          LET ll == geocode_place(reply)
          IN rq' = ask_return([rq EXCEPT !.glat = ll[1], !.glon = ll[2]])
    /\ UNCHANGED <<regVars, osm, md, upVars>>

\* ask: Nominatim never answers.  requests.get is called with no timeout,
\* so the call never returns.
ask_geocode_blocked ==
    /\ rq.pc = "ask_geocode"
    /\ rq' = [rq EXCEPT !.pc = "ask_geocode_blocked"]
    /\ UNCHANGED <<regVars, osm, md, upVars>>

\* plan_action's check of its input.
plan_rejects(lat, lon) == IsNone(lat) \/ IsNone(lon)

\* plan_action: the input check, then fetch_surroundings posts its query.
plan_begin(lat, lon) ==
    /\ rq.pc = "idle"
    /\ rq' = IF plan_rejects(lat, lon)
             THEN [RqIdle EXCEPT !.pc = "done", !.kind = "plan",
                                 !.lat = lat, !.lon = lon,
                                 !.resp = [status |-> 400,
                                           error |-> "Latitude and longitude required."]]
             ELSE [RqIdle EXCEPT !.pc = "plan_lookup", !.kind = "plan",
                                 !.lat = lat, !.lon = lon, !.lookups = 1]
    /\ UNCHANGED <<regVars, osm, md, upVars>>

\* plan_action: fetch_surroundings is back; get_rag_chain() reads llm.
plan_lookup_reply ==
    /\ rq.pc = "plan_lookup"
    /\ \E reply \in OverpassReplies(osm) :
          rq' = [rq EXCEPT !.pc = "plan_invoke",
                           !.lookup = reply.kind,
                           !.elements = IF reply.kind = "json"
                                        THEN reply.elements ELSE <<>>,
                           !.surroundings =
                               fetch_surroundings(rq.lat, rq.lon, reply),
                           !.chain = llm]
    /\ UNCHANGED <<regVars, osm, md, upVars>>

\* plan_action: Overpass never answers.  requests.post is called with no
\* timeout ("[timeout:25]" in the query is the server's own limit).
plan_lookup_blocked ==
    /\ rq.pc = "plan_lookup"
    /\ rq' = [rq EXCEPT !.pc = "plan_lookup_blocked"]
    /\ UNCHANGED <<regVars, osm, md, upVars>>

\* A prompt assigned under "if locations:" only.
prompt_assigned_if_locations(cats) == \E c \in DOMAIN cats : cats[c] # <<>>

\* Whether the local "prompt" is bound after the loop over
\* resource_categories.items(): the assignment stands in the loop's body,
\* beside "if locations:", so each of the six iterations runs it.
prompt_assigned(cats) == Len(CategoryOrder) > 0

\* plan_action: rag_chain.invoke(prompt) inside the try, then the markers.
\* "except Exception" answers 500, also for an unbound "prompt".
plan_invoke ==
    /\ rq.pc = "plan_invoke"
    /\ LET cats == resource_categories(rq.surroundings)
           prompt == plan_prompt(rq.lat, rq.lon, resources_report(cats))
           failed == [status |-> 500, error |-> "exception"]
       IN IF ~prompt_assigned(cats)
          THEN rq' = [rq EXCEPT !.pc = "done", !.resp = failed]
          ELSE \E out \in InvokeBackend(rq.chain) :
                  LET r == [rq EXCEPT !.pc = "done",
                                      !.retrieved = Append(@, prompt),
                                      !.model_in = chain_prompt(prompt),
                                      !.out = out]
                  IN rq' = IF ~out.ok
                           THEN [r EXCEPT !.resp = failed]
                           ELSE [r EXCEPT !.resp =
                                    [status |-> 200,
                                     plan |-> markdown_of[out.text],
                                     markers |-> plan_markers(rq.lat, rq.lon, cats)]]
    /\ UNCHANGED <<regVars, osm, md, upVars>>

\* The response is sent; the worker takes the next request.
request_finish ==
    /\ rq.pc = "done"
    /\ rq' = RqIdle
    /\ UNCHANGED <<regVars, osm, md, upVars>>

AskNext ==
    \/ \E query \in Queries : ask_begin(query)
    \/ ask_invoke
    \/ ask_geocode_reply
    \/ ask_geocode_blocked

PlanNext ==
    \/ \E lat \in LatArgs, lon \in LonArgs : plan_begin(lat, lon)
    \/ plan_lookup_reply
    \/ plan_lookup_blocked
    \/ plan_invoke
    \/ request_finish

RequestNext == AskNext \/ PlanNext

(***************************************************************************)
(* to_markdown on every text within the bounds.                            *)
(***************************************************************************)
Alphabet == {"S", "P", NL, " ", ":", "#", "1", ".", "-", "x"}

RECURSIVE TextsUpTo(_)
TextsUpTo(n) ==
    IF n = 0 THEN {<<>>}
    ELSE LET shorter == TextsUpTo(n - 1)
         IN shorter \cup
            {Append(q, c) : q \in {r \in shorter : Len(r) = n - 1},
                            c \in Alphabet}

MdOff == [pc |-> "off", raw |-> <<>>, once |-> <<>>, twice |-> <<>>]

\* markdown_result = to_markdown(result)
md_normalize ==
    /\ md.pc = "raw"
    /\ md' = [md EXCEPT !.pc = "once", !.once = to_markdown(md.raw)]
    /\ UNCHANGED <<regVars, rq, osm, upVars>>

\* to_markdown applied to its own output.
md_renormalize ==
    /\ md.pc = "once"
    /\ md' = [md EXCEPT !.pc = "twice", !.twice = to_markdown(md.once)]
    /\ UNCHANGED <<regVars, rq, osm, upVars>>

MarkdownNext == md_normalize \/ md_renormalize

(***************************************************************************)
(* upload_doc.  Each upload is one request; the requests run concurrently. *)
(* A file's content records whose bytes it holds, a text whose bytes it    *)
(* was extracted from, a stored document which request added it.           *)
(***************************************************************************)
Uploads == 1..NUploaders

ALLOWED_EXTENSIONS == {"png", "jpg", "jpeg", "bmp", "tiff", "pdf"}

\* The file part of an upload: no part at all, or a file name.
UploadNames == {PyNone, Str(""), Str("c.exe"), Str("a.pdf"), Str("b.png")}
\* What the uploaded bytes are.
ContentKinds == {"pdf_text", "image_text", "image_blank"}

\* filename.rsplit('.', 1)[1].lower(), '' without a dot.
extension(name) ==
    CASE name = "a.pdf" -> "pdf"
      [] name = "b.png" -> "png"
      [] name = "c.exe" -> "exe"
      [] OTHER -> ""

allowed_file(name) == extension(name) \in ALLOWED_EXTENSIONS

\* magic.from_file(path, mime=True)
mime_of(kind) == IF kind = "pdf_text" THEN "application/pdf" ELSE "image/png"

\* mime.startswith('image/') on the MIME types that occur.
is_image(mime) == mime = "image/png"

\* The test of upload_doc after the sniff.
mime_mismatch(ext, mime) ==
    \/ ext = "pdf" /\ mime # "application/pdf"
    \/ ext # "pdf" /\ ~is_image(mime)

Absent == [t |-> "absent"]
FolderNames == {"a.pdf", "b.png", "a.pdf.txt", "b.png.txt"}
txt_path(name) == IF name = "a.pdf" THEN "a.pdf.txt" ELSE "b.png.txt"

\* run_ocr on the file now at the path: a text, '' or None (any exception,
\* a missing file included, is caught and gives None).
run_ocr(file, ext) ==
    IF file = Absent THEN PyNone
    ELSE IF ext = "pdf"
    THEN (IF file.kind = "pdf_text" THEN [t |-> "text", of |-> file.by]
          ELSE PyNone)
    ELSE (IF file.kind = "image_text" THEN [t |-> "text", of |-> file.by]
          ELSE IF file.kind = "image_blank" THEN Str("")
          ELSE PyNone)

\* "not text or not text.strip()"
no_text(text) == text = PyNone \/ text = Str("")

UpIdle == [pc |-> "idle", name |-> PyNone, kind |-> "none", text |-> PyNone,
           status |-> 0, error |-> ""]

UpDone(r, status, error) ==
    [r EXCEPT !.pc = "done", !.status = status, !.error = error]

\* upload_doc up to file.save(path).
upload_begin(u, name, kind) ==
    /\ up[u].pc = "idle"
    /\ LET r == [UpIdle EXCEPT !.name = name, !.kind = kind]
       IN IF name = PyNone
          THEN /\ up' = [up EXCEPT ![u] = UpDone(r, 400, "No file part")]
               /\ UNCHANGED folder
          ELSE IF name.s = ""
          THEN /\ up' = [up EXCEPT ![u] = UpDone(r, 400, "No file selected")]
               /\ UNCHANGED folder
          ELSE IF ~allowed_file(name.s)
          THEN /\ up' = [up EXCEPT ![u] =
                            UpDone(r, 400, "Unsupported file extension")]
               /\ UNCHANGED folder
          ELSE /\ up' = [up EXCEPT ![u] = [r EXCEPT !.pc = "sniff"]]
               /\ folder' = [folder EXCEPT ![name.s] = [by |-> u, kind |-> kind]]
    /\ UNCHANGED <<vectorstore, faiss_index>>
    /\ UNCHANGED <<regVars, rq, osm, md>>

\* os.remove(path): the folder after it.
os_remove(fs, path) == [fs EXCEPT ![path] = Absent]

\* magic.from_file(path) and the MIME test.  A file that is gone raises.
upload_sniff(u) ==
    /\ up[u].pc = "sniff"
    /\ LET file == folder[up[u].name.s]
       IN up' = [up EXCEPT ![u] =
                    IF file = Absent
                    THEN UpDone(@, 500, "exception")
                    ELSE IF mime_mismatch(extension(up[u].name.s),
                                          mime_of(file.kind))
                    THEN [@ EXCEPT !.pc = "reject_mime"]
                    ELSE [@ EXCEPT !.pc = "ocr"]]
    /\ UNCHANGED <<folder, vectorstore, faiss_index>>
    /\ UNCHANGED <<regVars, rq, osm, md>>

\* A MIME-mismatch branch that answers 400 and leaves the saved file.
upload_reject_mime_keeps_file(u) ==
    /\ up[u].pc = "reject_mime"
    /\ up' = [up EXCEPT ![u] = UpDone(@, 400, "MIME mismatch")]
    /\ UNCHANGED <<folder, vectorstore, faiss_index>>
    /\ UNCHANGED <<regVars, rq, osm, md>>

\* The MIME-mismatch branch: os.remove(path), then 400.  os.remove raises
\* when another upload has removed the file meanwhile.
upload_reject_mime(u) ==
    /\ up[u].pc = "reject_mime"
    /\ up' = [up EXCEPT ![u] =
                 IF folder[up[u].name.s] = Absent
                 THEN UpDone(@, 500, "exception")
                 ELSE UpDone(@, 400, "MIME mismatch")]
    /\ folder' = os_remove(folder, up[u].name.s)
    /\ UNCHANGED <<vectorstore, faiss_index>>
    /\ UNCHANGED <<regVars, rq, osm, md>>

\* text = run_ocr(path, ext).  The cleanup loop that follows finds no
\* "<filename>_page_*.png" file: nothing here writes one.
upload_ocr(u) ==
    /\ up[u].pc = "ocr"
    /\ LET text == run_ocr(folder[up[u].name.s], extension(up[u].name.s))
       IN up' = [up EXCEPT ![u] =
                    [@ EXCEPT !.text = text,
                              !.pc = IF no_text(text) THEN "reject_ocr"
                                     ELSE "write_txt"]]
    /\ UNCHANGED <<folder, vectorstore, faiss_index>>
    /\ UNCHANGED <<regVars, rq, osm, md>>

\* The no-text branch: os.remove(path), then 500.
upload_reject_ocr(u) ==
    /\ up[u].pc = "reject_ocr"
    /\ up' = [up EXCEPT ![u] =
                 IF folder[up[u].name.s] = Absent
                 THEN UpDone(@, 500, "exception")
                 ELSE UpDone(@, 500, "OCR failed or no text")]
    /\ folder' = os_remove(folder, up[u].name.s)
    /\ UNCHANGED <<vectorstore, faiss_index>>
    /\ UNCHANGED <<regVars, rq, osm, md>>

\* The text is written to path + '.txt'.
upload_write_txt(u) ==
    /\ up[u].pc = "write_txt"
    /\ folder' = [folder EXCEPT ![txt_path(up[u].name.s)] = up[u].text]
    /\ up' = [up EXCEPT ![u].pc = "add_documents"]
    /\ UNCHANGED <<vectorstore, faiss_index>>
    /\ UNCHANGED <<regVars, rq, osm, md>>

\* TextLoader(txt_path).load() and vectorstore.add_documents(new_docs).
upload_add_documents(u) ==
    /\ up[u].pc = "add_documents"
    /\ vectorstore' = vectorstore \cup
          {[source |-> txt_path(up[u].name.s),
            page_content |-> folder[txt_path(up[u].name.s)],
            added_by |-> u]}
    /\ up' = [up EXCEPT ![u].pc = "save_local"]
    /\ UNCHANGED <<folder, faiss_index>>
    /\ UNCHANGED <<regVars, rq, osm, md>>

\* vectorstore.save_local('faiss_index'), then the 200.
upload_save_local(u) ==
    /\ up[u].pc = "save_local"
    /\ faiss_index' = vectorstore
    /\ up' = [up EXCEPT ![u] = UpDone(@, 200, "")]
    /\ UNCHANGED <<folder, vectorstore>>
    /\ UNCHANGED <<regVars, rq, osm, md>>

UploadNext ==
    \E u \in Uploads :
       \/ \E name \in UploadNames, kind \in ContentKinds :
             upload_begin(u, name, kind)
       \/ upload_sniff(u)
       \/ upload_reject_mime(u)
       \/ upload_ocr(u)
       \/ upload_reject_ocr(u)
       \/ upload_write_txt(u)
       \/ upload_add_documents(u)
       \/ upload_save_local(u)

(***************************************************************************)
(* The specifications.                                                     *)
(***************************************************************************)
\* The chunks of wildfire_docs/data.txt, in the store and in faiss_index.
Corpus == {[source |-> "wildfire_docs/data.txt",
            page_content |-> [t |-> "text", of |-> 0], added_by |-> 0]}

InitRegistry ==
    /\ \E b \in InitialLoad : llm = b[1] /\ current_model = b[2]
    /\ llm_lock = 0
    /\ ld = [l \in Loaders |-> LdIdle]

InitStores ==
    /\ folder = [n \in FolderNames |-> Absent]
    /\ vectorstore = Corpus
    /\ faiss_index = Corpus
    /\ up = [u \in Uploads |-> UpIdle]

Init ==
    /\ InitRegistry
    /\ rq = RqIdle
    /\ osm = OsmSmall
    /\ md = MdOff
    /\ InitStores

Next == (\E l \in Loaders : LoaderNext(l)) \/ RequestNext

Spec == Init /\ [][Next]_vars

\* The request worker alone, always scheduled when it can take a step.
\* No fairness is asked of the external services: whether one replies is
\* the choice between the _reply and the _blocked step.
FairSpec == Init /\ [][RequestNext]_vars /\ WF_vars(RequestNext)

InitPlan ==
    /\ InitRegistry
    /\ rq = RqIdle
    /\ osm = OsmSamples
    /\ md = MdOff
    /\ InitStores

SpecPlan == InitPlan /\ [][PlanNext]_vars

InitMarkdown ==
    /\ InitRegistry
    /\ rq = RqIdle
    /\ osm = OsmSmall
    /\ md \in {[pc |-> "raw", raw |-> x, once |-> <<>>, twice |-> <<>>] :
                  x \in TextsUpTo(MaxLen)}
    /\ InitStores

SpecMarkdown == InitMarkdown /\ [][MarkdownNext]_vars

SpecUpload == Init /\ [][UploadNext]_vars

(***************************************************************************)
(* The claims.                                                             *)
(***************************************************************************)
Invoking == rq.pc \in {"ask_invoke", "plan_invoke"}

\* C1: in every reachable state the global llm is a fully constructed
\* backend (a real model or the stub), and so is the backend held by every
\* chain an ask or plan_action request is about to invoke; this includes
\* the states in which a load_llm holds the lock and those after a failed
\* load.
C1_BackendAlwaysConstructed ==
    /\ IsBackend(llm)
    /\ Invoking => IsBackend(rq.chain)

\* C1's case: a request is about to invoke the backend it read while one
\* load is inside the constructor, after an earlier load failed and left
\* the stub.
C1_InvokeDuringLoadAfterFailedLoad ==
    /\ Invoking
    /\ rq.chain = StubModel
    /\ llm = StubModel
    /\ \E l \in Loaders :
          /\ ld[l].pc = "constructing"
          /\ ld[l].built = HalfBuilt("good.gguf")
          /\ llm_lock = l
    /\ \E k \in Loaders : ld[k].pc = "done" /\ ld[k].built = PyException

\* C2: a set_model call whose path exists and whose backend failed to
\* construct answers with a failure status, the registry holding a usable
\* backend.
C2_FailedLoadAnswersFailure ==
    \A l \in Loaders :
        (/\ ld[l].pc = "done"
         /\ ld[l].built = PyException)
        => /\ ld[l].resp.status # 200
           /\ IsBackend(llm)

MissingPath(model) == ~Truthy(model) \/ ~os_path_exists(model.s)

\* C3: every step of a set_model call whose model is absent or names no
\* existing file leaves llm and current_model as they were, and the call
\* ends at once with status 400.
C3_RejectedSwapChangesNothing ==
    [][\A l \in Loaders :
          (/\ ld'[l].pc # ld[l].pc
           /\ ld'[l].pc # "idle"
           /\ MissingPath(ld'[l].model))
          => /\ ld'[l].pc = "done"
             /\ ld'[l].resp.status = 400
             /\ llm' = llm
             /\ current_model' = current_model]_vars

\* C3's case: a call naming a missing file has been answered 400 while a
\* real model is active.
C3_RejectedWhileRealModelActive ==
    \E l \in Loaders :
        /\ ld[l].pc = "done"
        /\ ld[l].model = Str("missing.gguf")
        /\ ld[l].resp.status = 400
        /\ llm = RealModel("good.gguf")
        /\ current_model = Str("good.gguf")

PlanPrompt ==
    plan_prompt(rq.lat, rq.lon,
                resources_report(resource_categories(rq.surroundings)))

C5_NonNumericRejectedBeforeLookup ==
    (rq.kind = "plan" /\ ~(IsNum(rq.lat) /\ IsNum(rq.lon)))
    => /\ rq.lookups = 0
       /\ rq.model_in = PyNone
       /\ rq.pc = "done" => rq.resp.status = 400

LookupEmptyOrFailed ==
    \/ rq.lookup \in {"exception", "malformed"}
    \/ rq.lookup = "json" /\ rq.surroundings = <<>>

\* The backend in the request's chain is healthy: the stub, which never
\* raises, or a real model whose call returned a text.
BackendHealthy ==
    rq.chain = StubModel \/ (rq.out # PyNone /\ rq.out.ok)

\* C6: a plan_action request whose lookup failed or gave no point, and
\* whose backend is healthy, is answered 200 with every marker list empty
\* and the fire marker at the input coordinate.
C6_EmptyLookupStillPlans ==
    (/\ rq.kind = "plan"
     /\ rq.pc = "done"
     /\ rq.lookups = 1
     /\ LookupEmptyOrFailed
     /\ BackendHealthy)
    => /\ rq.resp.status = 200
       /\ rq.resp.markers.fire = [lat |-> rq.lat, lon |-> rq.lon]
       /\ rq.resp.markers.safe_zones = <<>>
       /\ rq.resp.markers.crews = <<>>
       /\ rq.resp.markers.aerial = <<>>
       /\ rq.resp.markers.hospitals = <<>>
       /\ rq.resp.markers.water_sources = <<>>

\* C6's case: the lookup raised, a real model wrote the plan, and the
\* request has been answered.
C6_PlannedAfterLookupException ==
    /\ rq.kind = "plan"
    /\ rq.pc = "done"
    /\ rq.lookup = "exception"
    /\ rq.chain = RealModel("good.gguf")
    /\ rq.resp.status = 200

\* C7: an answered ask carries a location exactly when a place was
\* extracted and geocode_place returned a latitude and a longitude, and
\* the location is then the whole {name, lat, lon}.
C7_LocationIffGeocoded ==
    (rq.kind = "ask" /\ rq.pc = "done" /\ rq.resp.status = 200)
    => LET geocoded == /\ rq.place_name # PyNone
                       /\ rq.glat # PyNone
                       /\ rq.glon # PyNone
       IN /\ (rq.resp.location # PyNone) <=> geocoded
          /\ geocoded => rq.resp.location =
                            [name |-> rq.place_name, lat |-> rq.glat,
                             lon |-> rq.glon]

\* C8: every ask request, and every plan_action request with numeric
\* coordinates, that has started is eventually answered, also when the
\* geocoder or Overpass never replies.
C8_RequestsEventuallyAnswered ==
    (/\ rq.pc \notin {"idle", "done"}
     /\ rq.kind = "plan" => IsNum(rq.lat) /\ IsNum(rq.lon))
    ~> (rq.pc = "done")

\* C9: to_markdown applied to its own output gives that output.
C9_NormalizeIdempotent ==
    md.pc = "twice" => md.twice = md.once

RejectedByIngestion(u) ==
    /\ up[u].pc = "done"
    /\ up[u].error \in {"MIME mismatch", "OCR failed or no text"}

\* C10: once an upload has been rejected for a MIME mismatch or for lack
\* of text, no file in the upload folder holds the bytes of that upload,
\* and neither the store nor the persisted index holds a document that
\* request added.
C10_RejectedUploadLeavesNothing ==
    \A u \in Uploads :
        RejectedByIngestion(u) =>
            /\ \A n \in FolderNames :
                  "by" \in DOMAIN folder[n] => folder[n].by # u
            /\ \A d \in vectorstore \cup faiss_index : d.added_by # u

\* C10's case: one upload was rejected for its MIME type and another for
\* lack of text.
C10_BothRejectionsSeen ==
    \E u, v \in Uploads :
        /\ up[u].pc = "done" /\ up[u].error = "MIME mismatch"
        /\ up[v].pc = "done" /\ up[v].error = "OCR failed or no text"

\* C11: in every reachable state, the states in which a load_llm holds the
\* lock included (list_models and get_rag_chain read without the lock),
\* current_model is set exactly when llm is a real model, and it is then
\* the path that model was loaded from.
C11_CurrentModelNamesActiveBackend ==
    /\ (current_model # PyNone) <=> (llm.t = "LlamaCpp")
    /\ llm.t = "LlamaCpp" =>
          /\ current_model = Str(llm.model_path)
          /\ list_models.current = Str(basename(llm.model_path))
    /\ llm.t = "dummy_llm" => list_models.current = PyNone

\* An element whose only classifying tag is highway=residential.
RoadOnly(e) ==
    /\ DOMAIN e.tags \cap {"amenity", "natural", "landuse", "highway"}
          = {"highway"}
    /\ e.tags.highway = "residential"

\* A type the if/elif chain sends to the Residential Area bucket.
ResidentialType(type) ==
    /\ contains("residential", type)
    /\ ~contains("fire", type)
    /\ ~contains("police", type)
    /\ ~contains("hospital", type)
    /\ ~contains("water", type)

\* C12: once the lookup is back for a numeric coordinate, every element of
\* the reply that has coordinates and whose only classifying tag is
\* highway=residential is in the surroundings with the type "Road"; no
\* point of type "Road" is in any of the six categories, in a line of the
\* report handed to the model, or among the safe-zone markers; and every
\* point of the Residential Area bucket has a type that contains
\* "residential" and none of "fire", "police", "hospital", "water".
C12_HighwayOnlyIsRoadInNoCategory ==
    (rq.kind = "plan" /\ rq.pc \in {"plan_invoke", "done"} /\ rq.lookups = 1)
    => LET cats == resource_categories(rq.surroundings)
           closest == Take(rq.surroundings, ClosestLimit)
           homes == SelectSeq(closest, LAMBDA loc : ResidentialType(loc.type))
       IN /\ (IsNum(rq.lat) /\ IsNum(rq.lon)) =>
                \A i \in 1..Len(rq.elements) :
                   LET e == rq.elements[i]
                   IN (RoadOnly(e) /\ HasCoords(e)) =>
                         \E k \in 1..Len(rq.surroundings) :
                            /\ rq.surroundings[k].type = "Road"
                            /\ rq.surroundings[k].name = location_name(e.tags)
                            /\ Num(rq.surroundings[k].lat) = el_lat(e)
                            /\ Num(rq.surroundings[k].lon) = el_lon(e)
          /\ \A c \in DOMAIN cats : \A k \in 1..Len(cats[c]) :
                cats[c][k].type # "Road"
          /\ cats["Residential Area"] = homes
          /\ rq.model_in # PyNone =>
                \A k \in 1..Len(rq.model_in.question.report) :
                   LET line == rq.model_in.question.report[k]
                   IN "type" \in DOMAIN line => line.type # "Road"
          /\ (rq.pc = "done" /\ rq.resp.status = 200) =>
                rq.resp.markers.safe_zones = Take(LatLon(homes), SafeZoneLimit)

\* C12's case: the reply held a street tagged highway=residential only and
\* a point tagged landuse=residential; the plan was answered with the
\* second as its one safe zone.
C12_StreetAndEstatePlanned ==
    /\ rq.kind = "plan"
    /\ rq.pc = "done"
    /\ rq.resp.status = 200
    /\ \E i, j \in 1..Len(rq.elements) :
          rq.elements[i] = E_road /\ rq.elements[j] = E_estate
    /\ Len(rq.surroundings) = 2
    /\ rq.resp.markers.safe_zones = <<[lat |-> 0, lon |-> 3]>>

=============================================================================
